---- MODULE Spec2Model ----
(***************************************************************************)
(* Model of the rule evaluation engine of the TestInterface component      *)
(* (client/src/components/TestInterface.tsx): evaluateCondition, getToday  *)
(* and the asynchronous handler runTest; of the ProductPicker component    *)
(* that builds its two selections; and of the RuleForm dialog of the       *)
(* RulesManagement screen, which builds the rules.                         *)
(*                                                                         *)
(* JavaScript values are represented as follows.                           *)
(*   string[]            a sequence of strings (duplicates are possible)   *)
(*   a date string       the sequence of its UTF-16 code units             *)
(*   T | null/undefined  the empty sequence for null/undefined, <<v>> for  *)
(*                       a value v                                         *)
(*   an optional field   the string "absent" when the field is missing     *)
(***************************************************************************)
EXTENDS Integers, Sequences, FiniteSets, TLC

VARIABLES
  customerCodes,     \* useState<string[]>: held codes picked by the operator
  renewalCodes,      \* useState<string[]>: renewal codes picked by the operator
  computedCodes,     \* useState<{...} | null>: code groups shown on screen
  testResults,       \* useState<TestResult[]>: fired results shown on screen
  loading,           \* useState<boolean>: disables the Run Test button
  pc,                \* position of the runTest invocation in flight
  computed,          \* runTest local: the code groups of this run
  rules,             \* runTest local: the fetched rule snapshot
  productGroups,     \* runTest local: the fetched product-group snapshot
  today,             \* runTest local: getToday() of this run
  apiRules,          \* what GET /api/rules answers
  apiProductGroups,  \* what GET /api/product-groups answers
  clock,             \* the calendar date new Date() reads, as <<y, m, d>>
  condCall,          \* a direct call of evaluateCondition: arguments and result
  products,          \* the catalog both ProductPickers list
  remembered,        \* history: the inputs and outputs of one earlier run
  customerPicker,    \* ProductPicker of the held codes: searchTerm, showOnlySelected
  renewalPicker,     \* ProductPicker of the renewal codes: searchTerm, showOnlySelected
  formData,          \* RuleForm useState<Rule>: the rule being edited
  errors,            \* RuleForm useState: the fields validate has flagged
  conditionsErrors,  \* RuleForm useState<string>: the message on the condition list
  openForm,          \* RulesManagement useState<boolean>: the dialog is open
  editingRule,       \* RulesManagement useState<Rule | null>: initialData of the form
  onSaveArg          \* the argument of the onSave call made by the latest step

vars == <<customerCodes, renewalCodes, computedCodes, testResults, loading, pc,
          computed, rules, productGroups, today, apiRules, apiProductGroups,
          clock, condCall, products, remembered, customerPicker, renewalPicker,
          formData, errors, conditionsErrors, openForm, editingRule, onSaveArg>>

uiVars == <<customerCodes, renewalCodes, computedCodes, testResults, loading>>
runVars == <<pc, computed, rules, productGroups, today>>
envVars == <<apiRules, apiProductGroups, clock, products>>
pickerVars == <<customerPicker, renewalPicker>>
formVars == <<formData, errors, conditionsErrors, openForm, editingRule, onSaveArg>>

----------------------------------------------------------------------------
(* Bounds of the model *)

MaxLen == 3      \* longest code array handed to evaluateCondition directly
MaxConds == 3    \* longest condition sequence of a rule
MaxRules == 2    \* longest rule snapshot

Codes == {"A", "B", "C"}

SeqsUpTo(S, n) == UNION {[1..k -> S] : k \in 0..n}

----------------------------------------------------------------------------
(* Array helpers of the JavaScript runtime *)

\* Array.prototype.includes
Includes(arr, x) == \E i \in 1..Len(arr) : arr[i] = x

\* Array.prototype.some / every with the callback  code => selected.includes(code)
SomeIncluded(arr, selected) == \E i \in 1..Len(arr) : Includes(selected, arr[i])
EveryIncluded(arr, selected) == \A i \in 1..Len(arr) : Includes(selected, arr[i])
EveryNotIncluded(arr, selected) == \A i \in 1..Len(arr) : ~Includes(selected, arr[i])

\* Array.from(new Set(arr)): first occurrences, in order
RECURSIVE Dedupe(_)
Dedupe(arr) ==
  IF arr = <<>> THEN <<>>
  ELSE LET front == Dedupe(SubSeq(arr, 1, Len(arr) - 1))
           last == arr[Len(arr)]
       IN IF Includes(front, last) THEN front ELSE Append(front, last)

\* the < of two strings: code unit by code unit, a proper prefix is smaller
RECURSIVE StrLess(_, _)
StrLess(a, b) ==
  IF b = <<>> THEN FALSE
  ELSE IF a = <<>> THEN TRUE
  ELSE IF Head(a) # Head(b) THEN Head(a) < Head(b)
  ELSE StrLess(Tail(a), Tail(b))

\* n written with w decimal digits, as code units ("0" is 48)
RECURSIVE PadDigits(_, _)
PadDigits(n, w) ==
  IF w = 0 THEN <<>> ELSE Append(PadDigits(n \div 10, w - 1), 48 + (n % 10))

\* the YYYY-MM-DD text of a calendar date ("-" is 45)
ISODate(d) == PadDigits(d[1], 4) \o <<45>> \o PadDigits(d[2], 2) \o <<45>> \o PadDigits(d[3], 2)

\* getToday: new Date().toISOString().split('T')[0]
getToday(now) == ISODate(now)

----------------------------------------------------------------------------
(* evaluateCondition *)

evaluateCondition_AnyAsEvery(selectedCodes, groupCodes, relationship) ==
  CASE relationship = "contains-any" -> EveryIncluded(groupCodes, selectedCodes)
    [] relationship = "contains-all" -> EveryIncluded(groupCodes, selectedCodes)
    [] relationship = "contains-some" ->
         SomeIncluded(groupCodes, selectedCodes) /\ ~EveryIncluded(groupCodes, selectedCodes)
    [] relationship = "contains-none" -> EveryNotIncluded(groupCodes, selectedCodes)
    [] OTHER -> FALSE

evaluateCondition_AllAsSome(selectedCodes, groupCodes, relationship) ==
  CASE relationship = "contains-any" -> SomeIncluded(groupCodes, selectedCodes)
    [] relationship = "contains-all" -> SomeIncluded(groupCodes, selectedCodes)
    [] relationship = "contains-some" ->
         SomeIncluded(groupCodes, selectedCodes) /\ ~EveryIncluded(groupCodes, selectedCodes)
    [] relationship = "contains-none" -> EveryNotIncluded(groupCodes, selectedCodes)
    [] OTHER -> FALSE

evaluateCondition_SomeWithoutNotAll(selectedCodes, groupCodes, relationship) ==
  CASE relationship = "contains-any" -> SomeIncluded(groupCodes, selectedCodes)
    [] relationship = "contains-all" -> EveryIncluded(groupCodes, selectedCodes)
    [] relationship = "contains-some" ->
         SomeIncluded(groupCodes, selectedCodes)
    [] relationship = "contains-none" -> EveryNotIncluded(groupCodes, selectedCodes)
    [] OTHER -> FALSE

evaluateCondition_NoneAsNotAll(selectedCodes, groupCodes, relationship) ==
  CASE relationship = "contains-any" -> SomeIncluded(groupCodes, selectedCodes)
    [] relationship = "contains-all" -> EveryIncluded(groupCodes, selectedCodes)
    [] relationship = "contains-some" ->
         SomeIncluded(groupCodes, selectedCodes) /\ ~EveryIncluded(groupCodes, selectedCodes)
    [] relationship = "contains-none" -> ~EveryIncluded(groupCodes, selectedCodes)
    [] OTHER -> FALSE

evaluateCondition_NoneWithoutNegation(selectedCodes, groupCodes, relationship) ==
  CASE relationship = "contains-any" -> SomeIncluded(groupCodes, selectedCodes)
    [] relationship = "contains-all" -> EveryIncluded(groupCodes, selectedCodes)
    [] relationship = "contains-some" ->
         SomeIncluded(groupCodes, selectedCodes) /\ ~EveryIncluded(groupCodes, selectedCodes)
    [] relationship = "contains-none" -> EveryIncluded(groupCodes, selectedCodes)
    [] OTHER -> FALSE

evaluateCondition_AllNeedsCodes(selectedCodes, groupCodes, relationship) ==
  CASE relationship = "contains-any" -> SomeIncluded(groupCodes, selectedCodes)
    [] relationship = "contains-all" -> groupCodes # <<>> /\ EveryIncluded(groupCodes, selectedCodes)
    [] relationship = "contains-some" ->
         SomeIncluded(groupCodes, selectedCodes) /\ ~EveryIncluded(groupCodes, selectedCodes)
    [] relationship = "contains-none" -> EveryNotIncluded(groupCodes, selectedCodes)
    [] OTHER -> FALSE

evaluateCondition(selectedCodes, groupCodes, relationship) ==
  CASE relationship = "contains-any" -> SomeIncluded(groupCodes, selectedCodes)
    [] relationship = "contains-all" -> EveryIncluded(groupCodes, selectedCodes)
    [] relationship = "contains-some" ->
         SomeIncluded(groupCodes, selectedCodes) /\ ~EveryIncluded(groupCodes, selectedCodes)
    [] relationship = "contains-none" -> EveryNotIncluded(groupCodes, selectedCodes)
    [] OTHER -> FALSE

----------------------------------------------------------------------------
(* runTest: the code groups *)

\* renewalCodes.filter(code => !customerCodes.includes(code))
RECURSIVE FilterNotIncluded(_, _)
FilterNotIncluded(arr, excluded) ==
  IF arr = <<>> THEN <<>>
  ELSE IF Includes(excluded, Head(arr)) THEN FilterNotIncluded(Tail(arr), excluded)
  ELSE <<Head(arr)>> \o FilterNotIncluded(Tail(arr), excluded)

computeCodeGroups_OpportunityReversed(customer, renewal) ==
  [customerCodes |-> customer,
   renewalCodes |-> renewal,
   allCustomerCodes |-> Dedupe(customer \o renewal),
   opportunityCodes |-> FilterNotIncluded(customer, renewal)]

computeCodeGroups_NoDedupe(customer, renewal) ==
  [customerCodes |-> customer,
   renewalCodes |-> renewal,
   allCustomerCodes |-> customer \o renewal,
   opportunityCodes |-> FilterNotIncluded(renewal, customer)]

\* "Compute code groups based on the current selections"
computeCodeGroups(customer, renewal) ==
  [customerCodes |-> customer,
   renewalCodes |-> renewal,
   allCustomerCodes |-> Dedupe(customer \o renewal),
   opportunityCodes |-> FilterNotIncluded(renewal, customer)]

----------------------------------------------------------------------------
(* runTest: the evaluation of one condition *)

selectCodes_CustomerRenewalSwapped(comp, codeGroup) ==
  CASE codeGroup = "customerCodes" -> comp.renewalCodes
    [] codeGroup = "renewalCodes" -> comp.customerCodes
    [] codeGroup = "allCustomerCodes" -> comp.allCustomerCodes
    [] codeGroup = "opportunityCodes" -> comp.opportunityCodes
    [] OTHER -> <<>>

\* switch (cond.codeGroup)
selectCodes(comp, codeGroup) ==
  CASE codeGroup = "customerCodes" -> comp.customerCodes
    [] codeGroup = "renewalCodes" -> comp.renewalCodes
    [] codeGroup = "allCustomerCodes" -> comp.allCustomerCodes
    [] codeGroup = "opportunityCodes" -> comp.opportunityCodes
    [] OTHER -> <<>>

\* productGroups.find(pg => pg.id === cond.productGroupId)
RECURSIVE findProductGroup(_, _)
findProductGroup(groups, id) ==
  IF groups = <<>> THEN <<>>
  ELSE IF Head(groups).id = id THEN <<Head(groups)>>
  ELSE findProductGroup(Tail(groups), id)

connectorOf_DefaultOr(cond) ==
  IF cond.connector = "absent" THEN "OR" ELSE cond.connector

\* cond.connector || 'AND'
connectorOf(cond) ==
  IF cond.connector = "absent" THEN "AND" ELSE cond.connector

\* let overallResult: boolean | null = null
initialOverallResult_True == <<TRUE>>

initialOverallResult == <<>>

\* the state of one rule's evaluation: the accumulator, and whether the
\* callback raised a TypeError (reading a property of undefined)
StartOfRule == [overallResult |-> initialOverallResult, threw |-> FALSE]

\* an unset accumulator read as false instead of being seeded
combine_NullAsFalse(overallResult, cond, conditionResult) ==
  LET acc == IF overallResult = <<>> THEN FALSE ELSE overallResult[1]
      connector == connectorOf(cond)
  IN IF connector = "AND" THEN <<acc /\ conditionResult>>
     ELSE IF connector = "OR" THEN <<acc \/ conditionResult>>
     ELSE overallResult

\* "Combine condition results"
combine(overallResult, cond, conditionResult) ==
  IF overallResult = <<>> THEN <<conditionResult>>
  ELSE LET connector == connectorOf(cond)
       IN IF connector = "AND" THEN <<overallResult[1] /\ conditionResult>>
          ELSE IF connector = "OR" THEN <<overallResult[1] \/ conditionResult>>
          ELSE overallResult

\* the resolved half of the callback: evaluate, then combine
evaluateAndCombine(st, cond, pg, selected) ==
  [st EXCEPT !.overallResult =
     combine(@, cond, evaluateCondition(selected, pg.productCodes, cond.relationship))]

\* a missing group read as if it were there: pg.productCodes of undefined throws
conditionCallback_NoGuard(st, cond, groups, comp) ==
  LET selected == selectCodes(comp, cond.codeGroup)
      pg == findProductGroup(groups, cond.productGroupId)
  IN IF pg = <<>> THEN [st EXCEPT !.threw = TRUE]
     ELSE evaluateAndCombine(st, cond, pg[1], selected)

\* a missing group counted as a condition that is false
conditionCallback_MissingIsFalse(st, cond, groups, comp) ==
  LET selected == selectCodes(comp, cond.codeGroup)
      pg == findProductGroup(groups, cond.productGroupId)
  IN IF pg = <<>> THEN [st EXCEPT !.overallResult = combine(@, cond, FALSE)]
     ELSE evaluateAndCombine(st, cond, pg[1], selected)

\* the callback of rule.conditions.forEach
conditionCallback(st, cond, groups, comp) ==
  LET selected == selectCodes(comp, cond.codeGroup)
      pg == findProductGroup(groups, cond.productGroupId)
  IN IF pg = <<>> THEN st
     ELSE evaluateAndCombine(st, cond, pg[1], selected)

\* rule.conditions.forEach(...): in order, stopped by an exception
RECURSIVE forEachCondition(_, _, _, _)
forEachCondition(conds, st, groups, comp) ==
  IF conds = <<>> \/ st.threw THEN st
  ELSE forEachCondition(Tail(conds), conditionCallback(st, Head(conds), groups, comp),
                        groups, comp)

----------------------------------------------------------------------------
(* runTest: the evaluation of the rules *)

isActive_IgnoresEnabled(rule, todayStr) ==
  ~(StrLess(todayStr, rule.startDate) \/ StrLess(rule.endDate, todayStr))

isActive_ExclusiveBounds(rule, todayStr) ==
  /\ rule.enabled
  /\ StrLess(rule.startDate, todayStr) /\ StrLess(todayStr, rule.endDate)

\* if (!rule.enabled) return; if (today < rule.startDate || today > rule.endDate) return;
isActive(rule, todayStr) ==
  /\ rule.enabled
  /\ ~(StrLess(todayStr, rule.startDate) \/ StrLess(rule.endDate, todayStr))

\* `https://marketing.example.com/${rule.id}`
marketingUrlOf(rule) == <<"https://marketing.example.com/", rule.id>>

pushFired_Unshift(firedResults, rule) ==
  <<[rule |-> rule, marketingUrl |-> marketingUrlOf(rule)]>> \o firedResults

\* firedResults.push({ rule, marketingUrl })
pushFired(firedResults, rule) ==
  Append(firedResults, [rule |-> rule, marketingUrl |-> marketingUrlOf(rule)])

fires_NotFalse(overallResult) == overallResult # <<FALSE>>

\* if (overallResult): null and false are falsy
fires(overallResult) == overallResult = <<TRUE>>

\* the callback of rules.forEach; out is firedResults and whether a callback threw
ruleCallback(out, rule, groups, comp, todayStr) ==
  IF ~isActive(rule, todayStr) THEN out
  ELSE LET st == forEachCondition(rule.conditions, StartOfRule, groups, comp)
       IN IF st.threw THEN [out EXCEPT !.threw = TRUE]
          ELSE IF fires(st.overallResult)
               THEN [out EXCEPT !.firedResults = pushFired(@, rule)]
               ELSE out

\* rules.forEach(...): in snapshot order, stopped by an exception
RECURSIVE forEachRule(_, _, _, _, _)
forEachRule(rs, out, groups, comp, todayStr) ==
  IF rs = <<>> \/ out.threw THEN out
  ELSE forEachRule(Tail(rs), ruleCallback(out, Head(rs), groups, comp, todayStr),
                   groups, comp, todayStr)

\* firedResults kept from the run before instead of starting empty
evaluateRules_KeepsPrevious(rs, groups, comp, todayStr) ==
  forEachRule(rs, [firedResults |-> testResults, threw |-> FALSE], groups, comp, todayStr)

\* const firedResults = []; rules.forEach(...)
evaluateRules(rs, groups, comp, todayStr) ==
  forEachRule(rs, [firedResults |-> <<>>, threw |-> FALSE], groups, comp, todayStr)

----------------------------------------------------------------------------
(* runTest: the steps of the asynchronous handler *)

\* allCustomerCodes built by pushing the renewal codes into the customerCodes array
RunTestStart_PushesIntoCustomerCodes ==
  /\ ~loading
  /\ pc \in {"idle", "done"}
  /\ loading' = TRUE
  /\ customerCodes' = Dedupe(customerCodes \o renewalCodes)
  /\ computed' = <<computeCodeGroups(customerCodes', renewalCodes)>>
  /\ computedCodes' = computed'
  /\ pc' = "awaitRules"
  /\ rules' = <<>>
  /\ productGroups' = <<>>
  /\ today' = <<>>
  /\ UNCHANGED <<renewalCodes, testResults, envVars, pickerVars, formVars, condCall,
                 remembered>>

\* click on Run Test (disabled while loading), up to the first await
RunTestStart ==
  /\ ~loading
  /\ pc \in {"idle", "done"}
  /\ loading' = TRUE
  /\ computed' = <<computeCodeGroups(customerCodes, renewalCodes)>>
  /\ computedCodes' = computed'
  /\ pc' = "awaitRules"
  /\ rules' = <<>>
  /\ productGroups' = <<>>
  /\ today' = <<>>
  /\ UNCHANGED <<customerCodes, renewalCodes, testResults, envVars, pickerVars, formVars,
                 condCall, remembered>>

\* the rules response arrives and parses; the second fetch is issued
RulesFetched ==
  /\ pc = "awaitRules"
  /\ rules' = apiRules
  /\ pc' = "awaitProductGroups"
  /\ UNCHANGED <<uiVars, computed, productGroups, today, envVars, pickerVars, formVars,
                 condCall, remembered>>

\* the end of the handler deriving the code groups again, from the selections
\* of the moment
ProductGroupsFetched_ReadsSelections ==
  /\ pc = "awaitProductGroups"
  /\ productGroups' = apiProductGroups
  /\ today' = getToday(clock)
  /\ LET out == evaluateRules(rules, productGroups',
                              computeCodeGroups(customerCodes, renewalCodes), today')
     IN IF out.threw
        THEN /\ pc' = "rejected"
             /\ UNCHANGED <<testResults, loading>>
        ELSE /\ pc' = "done"
             /\ testResults' = out.firedResults
             /\ loading' = FALSE
  /\ UNCHANGED <<customerCodes, renewalCodes, computedCodes, computed, rules,
                 envVars, pickerVars, formVars, condCall, remembered>>

\* the product-groups response arrives and parses; the rest of the handler
\* runs to its end without another await
ProductGroupsFetched ==
  /\ pc = "awaitProductGroups"
  /\ productGroups' = apiProductGroups
  /\ today' = getToday(clock)
  /\ LET out == evaluateRules(rules, productGroups', computed[1], today')
     IN IF out.threw
        THEN /\ pc' = "rejected"
             /\ UNCHANGED <<testResults, loading>>
        ELSE /\ pc' = "done"
             /\ testResults' = out.firedResults
             /\ loading' = FALSE
  /\ UNCHANGED <<customerCodes, renewalCodes, computedCodes, computed, rules,
                 envVars, pickerVars, formVars, condCall, remembered>>

\* GET /api/rules is rejected, or its body fails to parse: the await throws,
\* the promise of runTest rejects and nothing after the await runs
RulesFetchFailed ==
  /\ pc = "awaitRules"
  /\ pc' = "rejected"
  /\ UNCHANGED <<uiVars, computed, rules, productGroups, today, envVars, pickerVars,
                 formVars, condCall, remembered>>

\* GET /api/product-groups is rejected, or its body fails to parse
ProductGroupsFetchFailed ==
  /\ pc = "awaitProductGroups"
  /\ pc' = "rejected"
  /\ UNCHANGED <<uiVars, computed, rules, productGroups, today, envVars, pickerVars,
                 formVars, condCall, remembered>>

\* String.prototype.toLowerCase, on the letters the catalog and the searches use
LowerOf(ch) ==
  CASE ch = "A" -> "a"
    [] ch = "B" -> "b"
    [] ch = "C" -> "c"
    [] ch = "P" -> "p"
    [] OTHER -> ch

RECURSIVE toLowerCase(_)
toLowerCase(str) ==
  IF str = "" THEN ""
  ELSE LowerOf(SubSeq(str, 1, 1)) \o toLowerCase(SubSeq(str, 2, Len(str)))

\* String.prototype.includes: the empty string is included in every string
StrIncludes(str, term) ==
  \/ term = ""
  \/ \E i \in 1..(Len(str) - Len(term) + 1) : SubSeq(str, i, i + Len(term) - 1) = term

\* ProductPicker: the rows the picker lists
filteredProducts(selectedProducts, picker) ==
  SelectSeq(products,
            LAMBDA product :
              LET matchesSearch ==
                    \/ StrIncludes(toLowerCase(product.name), toLowerCase(picker.searchTerm))
                    \/ StrIncludes(toLowerCase(product.code), toLowerCase(picker.searchTerm))
              IN IF picker.showOnlySelected
                 THEN matchesSearch /\ Includes(selectedProducts, product.code)
                 ELSE matchesSearch)

\* ProductPicker: the state of the header checkbox
allFilteredSelected(selectedProducts, picker) ==
  LET filtered == filteredProducts(selectedProducts, picker)
  IN /\ Len(filtered) > 0
     /\ \A i \in 1..Len(filtered) : Includes(selectedProducts, filtered[i].code)

\* filteredProducts.map(p => p.code)
CodesOf(rows) == [i \in 1..Len(rows) |-> rows[i].code]

\* ProductPicker.handleToggleProduct: the selection handed to onSelectionChange
handleToggleProduct(selectedProducts, code) ==
  IF Includes(selectedProducts, code)
  THEN SelectSeq(selectedProducts, LAMBDA c : c # code)
  ELSE Append(selectedProducts, code)

\* the header checkbox adding the listed codes without the Set
handleSelectAllChange_NoSet(selectedProducts, picker, checked) ==
  LET filtered == filteredProducts(selectedProducts, picker)
  IN IF checked
     THEN selectedProducts \o CodesOf(filtered)
     ELSE SelectSeq(selectedProducts,
                    LAMBDA code : ~\E i \in 1..Len(filtered) : filtered[i].code = code)

\* ProductPicker.handleSelectAllChange: the selection handed to onSelectionChange
handleSelectAllChange(selectedProducts, picker, checked) ==
  LET filtered == filteredProducts(selectedProducts, picker)
  IN IF checked
     THEN Dedupe(selectedProducts \o CodesOf(filtered))
     ELSE SelectSeq(selectedProducts,
                    LAMBDA code : ~\E i \in 1..Len(filtered) : filtered[i].code = code)

\* a checkbox of a listed row of the customer picker is clicked (at any time,
\* also during a run)
ToggleCustomerCode ==
  /\ LET rows == filteredProducts(customerCodes, customerPicker)
     IN \E i \in 1..Len(rows) :
          customerCodes' = handleToggleProduct(customerCodes, rows[i].code)
  /\ UNCHANGED <<renewalCodes, computedCodes, testResults, loading, runVars, envVars,
                 pickerVars, formVars, condCall, remembered>>

\* a checkbox of a listed row of the renewal picker is clicked (at any time,
\* also during a run)
ToggleRenewalCode ==
  /\ LET rows == filteredProducts(renewalCodes, renewalPicker)
     IN \E i \in 1..Len(rows) :
          renewalCodes' = handleToggleProduct(renewalCodes, rows[i].code)
  /\ UNCHANGED <<customerCodes, computedCodes, testResults, loading, runVars, envVars,
                 pickerVars, formVars, condCall, remembered>>

\* what a step of a picker leaves alone outside the selections and the pickers
PickerFrame ==
  UNCHANGED <<computedCodes, testResults, loading, runVars, envVars, formVars,
              condCall, remembered>>

\* the header checkbox of the customer picker is clicked: the event carries the
\* opposite of what the checkbox showed
SelectAllCustomerCodes ==
  /\ customerCodes' = handleSelectAllChange(customerCodes, customerPicker,
                                            ~allFilteredSelected(customerCodes, customerPicker))
  /\ PickerFrame
  /\ UNCHANGED <<renewalCodes, pickerVars>>

\* the header checkbox of the renewal picker is clicked
SelectAllRenewalCodes ==
  /\ renewalCodes' = handleSelectAllChange(renewalCodes, renewalPicker,
                                           ~allFilteredSelected(renewalCodes, renewalPicker))
  /\ PickerFrame
  /\ UNCHANGED <<customerCodes, pickerVars>>

\* what the operator types into a search box
SearchTerms == {"", "a", "B", "zz"}

\* the search box of the customer picker is edited
SearchCustomerCodes ==
  /\ \E term \in SearchTerms :
       customerPicker' = [customerPicker EXCEPT !.searchTerm = term]
  /\ PickerFrame
  /\ UNCHANGED <<customerCodes, renewalCodes, renewalPicker>>

\* the search box of the renewal picker is edited
SearchRenewalCodes ==
  /\ \E term \in SearchTerms :
       renewalPicker' = [renewalPicker EXCEPT !.searchTerm = term]
  /\ PickerFrame
  /\ UNCHANGED <<customerCodes, renewalCodes, customerPicker>>

\* the Show Only Selected switch of the customer picker is flipped
ShowOnlySelectedCustomerCodes ==
  /\ customerPicker' = [customerPicker EXCEPT !.showOnlySelected = ~@]
  /\ PickerFrame
  /\ UNCHANGED <<customerCodes, renewalCodes, renewalPicker>>

\* the Show Only Selected switch of the renewal picker is flipped
ShowOnlySelectedRenewalCodes ==
  /\ renewalPicker' = [renewalPicker EXCEPT !.showOnlySelected = ~@]
  /\ PickerFrame
  /\ UNCHANGED <<customerCodes, renewalCodes, customerPicker>>

\* both ProductPickers as mounted
PickersMounted ==
  /\ customerPicker = [searchTerm |-> "", showOnlySelected |-> FALSE]
  /\ renewalPicker = [searchTerm |-> "", showOnlySelected |-> FALSE]

\* a direct call of evaluateCondition
EvaluateConditionCall ==
  /\ condCall # <<>>
  /\ condCall[1].result = <<>>
  /\ condCall' = <<[condCall[1] EXCEPT !.result =
                     <<evaluateCondition(condCall[1].selected, condCall[1].groupCodes,
                                         condCall[1].relationship)>>]>>
  /\ UNCHANGED <<uiVars, runVars, envVars, pickerVars, formVars, remembered>>

----------------------------------------------------------------------------
(* The data the runs are checked on *)

Day1 == <<2024, 9, 30>>
Day2 == <<2024, 10, 1>>
Day3 == <<2025, 1, 2>>
Days == {Day1, Day2, Day3}

GroupC == [id |-> "G0", name |-> "Group 0", productCodes |-> <<"C">>]
GroupAB == [id |-> "G1", name |-> "Group 1", productCodes |-> <<"A", "B">>]

\* a catalog of products with the given codes
Catalog(codes) == [i \in 1..Len(codes) |-> [code |-> codes[i], name |-> "Product " \o codes[i]]]

Condition(connector, codeGroup, productGroupId, relationship) ==
  [connector |-> connector, codeGroup |-> codeGroup,
   productGroupId |-> productGroupId, relationship |-> relationship]

MakeRule(id, enabled, startDay, endDay, conds) ==
  [id |-> id, name |-> id, enabled |-> enabled,
   startDate |-> ISODate(startDay), endDate |-> ISODate(endDay),
   conditions |-> conds, recommendationId |-> "rec1"]

RuleId(i) == "R" \o ToString(i)

----------------------------------------------------------------------------
(* RuleForm, and the RulesManagement screen that opens it *)

MaxFormConds == 3    \* longest condition list the form is taken to

DaysInMonth(y, m) ==
  IF m = 2
  THEN IF (y % 4 = 0 /\ y % 100 # 0) \/ y % 400 = 0 THEN 29 ELSE 28
  ELSE IF m \in {4, 6, 9, 11} THEN 30 ELSE 31

\* the calendar date Date.prototype.setDate leaves when the day overflows the month
RECURSIVE NormalizeDate(_)
NormalizeDate(d) ==
  IF d[3] <= DaysInMonth(d[1], d[2]) THEN d
  ELSE IF d[2] = 12
       THEN NormalizeDate(<<d[1] + 1, 1, d[3] - DaysInMonth(d[1], d[2])>>)
       ELSE NormalizeDate(<<d[1], d[2] + 1, d[3] - DaysInMonth(d[1], d[2])>>)

\* getDate30DaysFromNow: setDate(getDate() + 30), then the text of the date
getDate30DaysFromNow(now) == ISODate(NormalizeDate(<<now[1], now[2], now[3] + 30>>))

\* RulesManagement.recommendations, as fetched on mount
recommendations == <<[id |-> "rec1", name |-> "Recommendation 1"]>>

\* RuleForm.defaultCondition: it has no connector field
defaultCondition == Condition("absent", "customerCodes", "", "contains-any")

\* the rule the effect of RuleForm puts into the form when there is no initialData
NewRule ==
  [id |-> "absent", name |-> "", enabled |-> FALSE,
   startDate |-> getToday(clock), endDate |-> getDate30DaysFromNow(clock),
   conditions |-> <<defaultCondition>>,
   recommendationId |-> IF Len(recommendations) > 0 THEN recommendations[1].id ELSE ""]

\* no field flagged
NoErrors == [field \in {} |-> ""]

\* the effect of RuleForm on [initialData, open, ...], run after a step that
\* changed one of the two
FormEffect(initialData) ==
  /\ formData' = IF initialData # <<>> THEN initialData[1] ELSE NewRule
  /\ errors' = NoErrors
  /\ conditionsErrors' = ""

\* the message validate puts on a flagged field
ErrorMessage(data, field) ==
  CASE field = "name" -> "Name is required"
    [] field = "startDate" -> "Start Date is required"
    [] field = "endDate" ->
         IF data.endDate = <<>> THEN "End Date is required"
         ELSE "End Date must be after Start Date"
    [] field = "recommendationId" -> "Recommendation is required"

\* validate that takes an empty condition list for a valid one
validate_NoLengthCheck(data, shownConditionsErrors) ==
  LET flagged ==
        {field \in {"name", "startDate", "endDate", "recommendationId"} :
           CASE field = "name" -> data.name = ""
             [] field = "startDate" -> data.startDate = <<>>
             [] field = "endDate" ->
                  \/ data.endDate = <<>>
                  \/ /\ data.startDate # <<>>
                     /\ StrLess(data.endDate, data.startDate)
             [] field = "recommendationId" -> data.recommendationId = ""}
      groupMissing ==
        \E i \in 1..Len(data.conditions) : data.conditions[i].productGroupId = ""
  IN [valid |-> flagged = {} /\ ~groupMissing,
      errors |-> [field \in flagged |-> ErrorMessage(data, field)],
      conditionsErrors |->
        IF groupMissing THEN "All conditions must have a product group selected"
        ELSE shownConditionsErrors]

\* RuleForm.validate: its result, and what it leaves in errors and conditionsErrors
validate(data, shownConditionsErrors) ==
  LET flagged ==
        {field \in {"name", "startDate", "endDate", "recommendationId"} :
           CASE field = "name" -> data.name = ""
             [] field = "startDate" -> data.startDate = <<>>
             [] field = "endDate" ->
                  \/ data.endDate = <<>>
                  \/ /\ data.startDate # <<>>
                     /\ StrLess(data.endDate, data.startDate)
             [] field = "recommendationId" -> data.recommendationId = ""}
      noConditions == Len(data.conditions) = 0
      groupMissing ==
        \E i \in 1..Len(data.conditions) : data.conditions[i].productGroupId = ""
  IN [valid |-> flagged = {} /\ ~noConditions /\ ~groupMissing,
      errors |-> [field \in flagged |-> ErrorMessage(data, field)],
      conditionsErrors |->
        IF noConditions THEN "At least one condition is required"
        ELSE IF groupMissing THEN "All conditions must have a product group selected"
        ELSE shownConditionsErrors]

\* RuleForm.handleFieldChange: the rule it leaves in the form
handleFieldChange(prev, e) ==
  [prev EXCEPT ![e.name] = IF e.type = "checkbox" THEN e.checked ELSE e.value]

\* RuleForm.handleConditionChange: the condition list it leaves in the form
\* (index counts from 0, as in the source)
handleConditionChange(conditions, index, field, value) ==
  [conditions EXCEPT ![index + 1] = [@ EXCEPT ![field] = value]]

\* RuleForm.addCondition: the condition list it leaves in the form
addCondition(conditions) ==
  Append(conditions, [defaultCondition EXCEPT !.connector = "AND"])

\* RuleForm.removeCondition: the condition list it leaves in the form
removeCondition(conditions, index) ==
  [i \in 1..(Len(conditions) - 1) |->
     IF i < index + 1 THEN conditions[i] ELSE conditions[i + 1]]

\* what a step of the rule form leaves alone
FormFrame == UNCHANGED <<uiVars, runVars, envVars, pickerVars, condCall, remembered>>

\* RulesManagement.handleAdd: the Add Rule button, behind the dialog while it is open
handleAdd ==
  /\ ~openForm
  /\ editingRule' = <<>>
  /\ openForm' = TRUE
  /\ FormEffect(editingRule')
  /\ onSaveArg' = <<>>
  /\ FormFrame

\* RulesManagement.handleEdit: the Edit button of a row of the fetched rules
handleEdit ==
  /\ ~openForm
  /\ \E i \in 1..Len(apiRules) :
       /\ editingRule' = <<apiRules[i]>>
       /\ FormEffect(editingRule')
  /\ openForm' = TRUE
  /\ onSaveArg' = <<>>
  /\ FormFrame

\* RulesManagement.handleFormClose: Cancel, or a click outside the dialog
handleFormClose ==
  /\ openForm
  /\ openForm' = FALSE
  /\ FormEffect(editingRule)
  /\ onSaveArg' = <<>>
  /\ UNCHANGED editingRule
  /\ FormFrame

\* what the operator does to a field of the rule: type a name, pick an end
\* date, tick or untick Enabled
FieldEvents ==
  [name : {"name"}, value : {"", "Promo"}, type : {"text"}, checked : {FALSE}]
    \cup [name : {"endDate"}, value : {ISODate(Day1), ISODate(Day3)}, type : {"date"},
          checked : {FALSE}]
    \cup [name : {"enabled"}, value : {"on"}, type : {"checkbox"}, checked : BOOLEAN]

\* a field of the rule is edited
FieldChanged ==
  /\ openForm
  /\ \E e \in FieldEvents :
       /\ e.type = "checkbox" => e.checked = ~formData.enabled
       /\ formData' = handleFieldChange(formData, e)
  /\ onSaveArg' = <<>>
  /\ UNCHANGED <<errors, conditionsErrors, openForm, editingRule>>
  /\ FormFrame

\* a recommendation is picked in the Recommendation select
RecommendationChanged ==
  /\ openForm
  /\ \E i \in 1..Len(recommendations) :
       formData' = [formData EXCEPT !.recommendationId = recommendations[i].id]
  /\ onSaveArg' = <<>>
  /\ UNCHANGED <<errors, conditionsErrors, openForm, editingRule>>
  /\ FormFrame

\* a select of a condition row is changed: the connector select exists from the
\* second row on, the product group is one of the fetched groups or cleared
ConditionChanged ==
  /\ openForm
  /\ \E index \in 0..(Len(formData.conditions) - 1) :
       \/ /\ index > 0
          /\ \E value \in {"AND", "OR"} :
               formData' = [formData EXCEPT !.conditions =
                              handleConditionChange(@, index, "connector", value)]
       \/ \E value \in {""} \cup {apiProductGroups[g].id : g \in 1..Len(apiProductGroups)} :
            formData' = [formData EXCEPT !.conditions =
                           handleConditionChange(@, index, "productGroupId", value)]
  /\ onSaveArg' = <<>>
  /\ UNCHANGED <<errors, conditionsErrors, openForm, editingRule>>
  /\ FormFrame

\* the Add Condition button
ConditionAdded ==
  /\ openForm
  /\ Len(formData.conditions) < MaxFormConds
  /\ formData' = [formData EXCEPT !.conditions = addCondition(@)]
  /\ onSaveArg' = <<>>
  /\ UNCHANGED <<errors, conditionsErrors, openForm, editingRule>>
  /\ FormFrame

\* the remove button of a condition row, disabled while there is one row
ConditionRemoved ==
  /\ openForm
  /\ Len(formData.conditions) # 1
  /\ \E index \in 0..(Len(formData.conditions) - 1) :
       formData' = [formData EXCEPT !.conditions = removeCondition(@, index)]
  /\ onSaveArg' = <<>>
  /\ UNCHANGED <<errors, conditionsErrors, openForm, editingRule>>
  /\ FormFrame

\* RuleForm.handleSave, and RulesManagement.handleFormSave behind onSave: the
\* request is answered and the dialog closes, or it is rejected and the dialog
\* stays open
handleSave ==
  /\ openForm
  /\ LET checked == validate(formData, conditionsErrors)
     IN IF checked.valid
        THEN /\ onSaveArg' = <<formData>>
             /\ \/ /\ openForm' = FALSE
                   /\ FormEffect(editingRule)
                \/ /\ errors' = checked.errors
                   /\ conditionsErrors' = checked.conditionsErrors
                   /\ UNCHANGED <<formData, openForm>>
        ELSE /\ onSaveArg' = <<>>
             /\ errors' = checked.errors
             /\ conditionsErrors' = checked.conditionsErrors
             /\ UNCHANGED <<formData, openForm>>
  /\ UNCHANGED editingRule
  /\ FormFrame

\* RulesManagement and its RuleForm as mounted: the dialog closed, the form
\* holding a new rule
FormMounted ==
  /\ formData = NewRule
  /\ errors = NoErrors
  /\ conditionsErrors = ""
  /\ openForm = FALSE
  /\ editingRule = <<>>
  /\ onSaveArg = <<>>

\* the component as mounted, before any click
Mounted ==
  /\ computedCodes = <<>>
  /\ testResults = <<>>
  /\ loading = FALSE
  /\ pc = "idle"
  /\ computed = <<>>
  /\ rules = <<>>
  /\ productGroups = <<>>
  /\ today = <<>>

\* conditions over one code group; "GX" names a product group that does not exist
FoldConds ==
  [connector : {"absent", "AND", "OR"},
   codeGroup : {"customerCodes"},
   productGroupId : {"G1", "GX"},
   relationship : {"contains-any", "contains-none"}]

\* one active rule with every condition sequence up to MaxConds
InitFold ==
  /\ Mounted
  /\ customerCodes \in {<<>>, <<"A">>}
  /\ renewalCodes = <<>>
  /\ apiRules \in {<<MakeRule(RuleId(1), TRUE, Day1, Day3, conds)>> :
                     conds \in SeqsUpTo(FoldConds, MaxConds)}
  /\ apiProductGroups = <<GroupC, GroupAB>>
  /\ clock = Day2
  /\ condCall = <<>>
  /\ products = Catalog(<<"A", "B", "C">>)
  /\ remembered = <<>>
  /\ PickersMounted
  /\ FormMounted

RunConditionLists ==
  { <<Condition("absent", "customerCodes", "G1", "contains-any")>>,
    <<Condition("absent", "customerCodes", "GX", "contains-any"),
      Condition("OR", "allCustomerCodes", "G1", "contains-none")>>,
    <<Condition("absent", "opportunityCodes", "G1", "contains-any"),
      Condition("AND", "renewalCodes", "GX", "contains-all")>> }

RunWindows == {<<Day1, Day2>>, <<Day2, Day3>>, <<Day2, Day2>>, <<Day3, Day1>>}

RunRuleBodies ==
  [enabled : BOOLEAN, window : RunWindows, conditions : RunConditionLists]

RunSnapshots ==
  { [i \in 1..Len(bodies) |->
       MakeRule(RuleId(i), bodies[i].enabled, bodies[i].window[1], bodies[i].window[2],
                bodies[i].conditions)] :
    bodies \in SeqsUpTo(RunRuleBodies, MaxRules) }

RunSelections == {<<<<"A">>, <<>>>>, <<<<"C">>, <<>>>>, <<<<"A">>, <<"B">>>>}

\* snapshots of up to MaxRules rules, enabled or not, in and out of their window
InitRun ==
  /\ Mounted
  /\ \E sel \in RunSelections : customerCodes = sel[1] /\ renewalCodes = sel[2]
  /\ apiRules \in RunSnapshots
  /\ apiProductGroups = <<GroupC, GroupAB>>
  /\ clock \in Days
  /\ condCall = <<>>
  /\ products = Catalog(<<"A", "B", "C">>)
  /\ remembered = <<>>
  /\ PickersMounted
  /\ FormMounted

Relationships == {"contains-any", "contains-all", "contains-some", "contains-none"}

\* evaluateCondition on every pair of code arrays up to MaxLen
InitCond ==
  /\ Mounted
  /\ customerCodes = <<>>
  /\ renewalCodes = <<>>
  /\ apiRules = <<>>
  /\ apiProductGroups = <<>>
  /\ clock = Day1
  /\ products = Catalog(<<"A", "B", "C">>)
  /\ remembered = <<>>
  /\ PickersMounted
  /\ FormMounted
  /\ condCall \in {<<[selected |-> s, groupCodes |-> g, relationship |-> r, result |-> <<>>]>> :
                     s \in SeqsUpTo(Codes, MaxLen), g \in SeqsUpTo(Codes, MaxLen),
                     r \in Relationships}

NextEval ==
  \/ RunTestStart
  \/ RulesFetched
  \/ ProductGroupsFetched

NextCond == EvaluateConditionCall

SpecFold == InitFold /\ [][NextEval]_vars
SpecRun == InitRun /\ [][NextEval]_vars
SpecCond == InitCond /\ [][NextCond]_vars

----------------------------------------------------------------------------
(* Vocabulary of the properties: sets, calendar order, the intended verdict *)

ToSet(arr) == {arr[i] : i \in 1..Len(arr)}

Front(arr) == SubSeq(arr, 1, Len(arr) - 1)

\* the calendar date a YYYY-MM-DD text denotes, as the number YYYYMMDD
DayNumber(str) ==
  LET digit(k) == str[k] - 48
  IN (digit(1) * 1000 + digit(2) * 100 + digit(3) * 10 + digit(4)) * 10000
     + (digit(6) * 10 + digit(7)) * 100 + (digit(9) * 10 + digit(10))

InWindow(rule, todayStr) ==
  /\ DayNumber(rule.startDate) <= DayNumber(todayStr)
  /\ DayNumber(todayStr) <= DayNumber(rule.endDate)

Active(rule, todayStr) == rule.enabled /\ InWindow(rule, todayStr)

Resolves(cond, groups) == \E k \in 1..Len(groups) : groups[k].id = cond.productGroupId

GroupCodeSet(cond, groups) ==
  ToSet(groups[CHOOSE k \in 1..Len(groups) : groups[k].id = cond.productGroupId].productCodes)

\* the conditions of a rule whose product group exists, in order
RECURSIVE Resolved(_, _)
Resolved(conds, groups) ==
  IF conds = <<>> THEN <<>>
  ELSE IF Resolves(Head(conds), groups) THEN <<Head(conds)>> \o Resolved(Tail(conds), groups)
  ELSE Resolved(Tail(conds), groups)

\* the four code groups as sets
CodeSet(held, renewal, codeGroup) ==
  CASE codeGroup = "customerCodes" -> held
    [] codeGroup = "renewalCodes" -> renewal
    [] codeGroup = "allCustomerCodes" -> held \cup renewal
    [] codeGroup = "opportunityCodes" -> renewal \ held

\* the relationship of a condition, over sets
Holds(selected, group, relationship) ==
  CASE relationship = "contains-any" -> selected \cap group # {}
    [] relationship = "contains-all" -> group \subseteq selected
    [] relationship = "contains-some" -> selected \cap group # {} /\ ~(group \subseteq selected)
    [] relationship = "contains-none" -> selected \cap group = {}

\* the strict left-to-right fold of results bs (not empty) under connectors cs:
\* everything before the last result is folded first, then the last result is
\* joined by its own connector
RECURSIVE LeftFold(_, _)
LeftFold(bs, cs) ==
  IF Len(bs) = 1 THEN bs[1]
  ELSE IF cs[Len(bs)] = "OR" THEN LeftFold(Front(bs), Front(cs)) \/ bs[Len(bs)]
  ELSE LeftFold(Front(bs), Front(cs)) /\ bs[Len(bs)]

Connectors(conds) == [k \in 1..Len(conds) |-> conds[k].connector]

\* the results evaluateCondition gives the conditions of this run (all resolving)
RunResults(conds) ==
  [k \in 1..Len(conds) |->
     evaluateCondition(selectCodes(computed[1], conds[k].codeGroup),
                       findProductGroup(productGroups, conds[k].productGroupId)[1].productCodes,
                       conds[k].relationship)]

\* the intended results of the conditions of this run (all resolving)
IntendedResults(conds) ==
  [k \in 1..Len(conds) |->
     Holds(CodeSet(ToSet(computed[1].customerCodes), ToSet(computed[1].renewalCodes),
                   conds[k].codeGroup),
           GroupCodeSet(conds[k], productGroups), conds[k].relationship)]

\* the intended verdict of a rule in this run
IntendedVerdict(rule) ==
  LET conds == Resolved(rule.conditions, productGroups)
  IN conds # <<>> /\ LeftFold(IntendedResults(conds), Connectors(conds))

\* the rule is among the fired results on screen
Fired(rule) == \E j \in 1..Len(testResults) : testResults[j].rule = rule

AllResolve(conds) == \A k \in 1..Len(conds) : Resolves(conds[k], productGroups)
NoneResolves(conds) == \A k \in 1..Len(conds) : ~Resolves(conds[k], productGroups)

RunDone == pc = "done"

----------------------------------------------------------------------------
(* Properties of the fold of one rule, under SpecFold *)

\* C1: when every product group of a rule resolves, the rule fires exactly when
\* the strict left-to-right fold of its condition results is true, each result
\* after the first joined by its own connector (AND when absent); results
\* [A, B, C] under connectors [-, AND, OR] give (A AND B) OR C, and results
\* [true, false, true] under [-, OR, AND] give true.
C1_LeftToRightFold ==
  RunDone =>
    \A i \in 1..Len(rules) :
      LET conds == rules[i].conditions
          bs == RunResults(conds)
          cs == Connectors(conds)
      IN (conds # <<>> /\ AllResolve(conds)) =>
           /\ Fired(rules[i]) = LeftFold(bs, cs)
           /\ (Len(conds) = 3 /\ cs[2] = "AND" /\ cs[3] = "OR") =>
                Fired(rules[i]) = ((bs[1] /\ bs[2]) \/ bs[3])
           /\ (bs = <<TRUE, FALSE, TRUE>> /\ cs[2] = "OR" /\ cs[3] = "AND") =>
                Fired(rules[i])

\* a rule [false, AND false, OR true] has fired: (false AND false) OR true
C1_Witness ==
  /\ RunDone
  /\ Len(rules) = 1
  /\ Len(rules[1].conditions) = 3
  /\ AllResolve(rules[1].conditions)
  /\ RunResults(rules[1].conditions) = <<FALSE, FALSE, TRUE>>
  /\ Connectors(rules[1].conditions) = <<"absent", "absent", "OR">>
  /\ Fired(rules[1])

\* C2: a condition whose product group does not resolve is ignored by the fold:
\* a rule fires exactly when the same rule without its unresolved conditions
\* would.
C2_UnresolvedIgnored ==
  RunDone =>
    \A i \in 1..Len(rules) :
      Fired(rules[i]) =
        fires(forEachCondition(Resolved(rules[i].conditions, productGroups), StartOfRule,
                               productGroups, computed[1]).overallResult)

\* a rule [true, AND <missing>] has fired
C2_Witness ==
  /\ RunDone
  /\ Len(rules) = 1
  /\ Len(rules[1].conditions) = 2
  /\ Resolves(rules[1].conditions[1], productGroups)
  /\ ~Resolves(rules[1].conditions[2], productGroups)
  /\ rules[1].conditions[2].connector = "AND"
  /\ Fired(rules[1])

\* C6: a rule whose conditions all reference a missing product group does not
\* fire, and the run that evaluates it ends normally, never by an exception.
C6_AllMissingNeverFires ==
  \A i \in 1..Len(rules) :
    (rules[i].conditions # <<>> /\ NoneResolves(rules[i].conditions)) =>
      /\ pc # "rejected"
      /\ RunDone => (~Fired(rules[i]) /\ ~loading)

\* a run over a rule with three conditions, all missing, has ended
C6_Witness ==
  /\ RunDone
  /\ Len(rules) = 1
  /\ Len(rules[1].conditions) = 3
  /\ NoneResolves(rules[1].conditions)
  /\ Active(rules[1], today)
  /\ testResults = <<>>
  /\ ~loading

\* C7: an active rule without conditions has verdict false and is not among the
\* fired results.
C7_EmptyNeverFires ==
  RunDone =>
    \A i \in 1..Len(rules) :
      (rules[i].conditions = <<>> /\ Active(rules[i], today)) => ~Fired(rules[i])

\* a run over an active rule without conditions has ended with no result
C7_Witness ==
  /\ RunDone
  /\ Len(rules) = 1
  /\ rules[1].conditions = <<>>
  /\ Active(rules[1], today)
  /\ testResults = <<>>

----------------------------------------------------------------------------
(* Properties of evaluateCondition, under SpecCond *)

CallReturned == condCall # <<>> /\ condCall[1].result # <<>>

\* C10: contains-any is true exactly when some code of groupCodes is in
\* selected; over an empty groupCodes it is false.
C10_ContainsAny ==
  (CallReturned /\ condCall[1].relationship = "contains-any") =>
    /\ condCall[1].result[1] =
         (ToSet(condCall[1].groupCodes) \cap ToSet(condCall[1].selected) # {})
    /\ condCall[1].groupCodes = <<>> => condCall[1].result[1] = FALSE

\* contains-any returned true for a group only partly present in selected
C10_Witness ==
  /\ CallReturned
  /\ condCall[1].relationship = "contains-any"
  /\ condCall[1].groupCodes = <<"A", "B">>
  /\ condCall[1].selected = <<"C", "B">>
  /\ condCall[1].result = <<TRUE>>

----------------------------------------------------------------------------
(* Properties of a whole run, under SpecRun *)

ExampleCondition == Condition("absent", "customerCodes", "G1", "contains-any")

FiredIds(results) == [j \in 1..Len(results) |-> results[j].rule.id]

\* the snapshot without the conditions whose product group does not resolve
WithoutUnresolved(rs, groups) ==
  [i \in 1..Len(rs) |-> [rs[i] EXCEPT !.conditions = Resolved(@, groups)]]

\* C3: the fired results are exactly the rules of the snapshot that are active
\* and whose folded verdict is true, each with its output payload; an active rule
\* with the single condition {customerCodes, G1, contains-any}, G1 = {A, B},
\* fires for held codes {A} and does not fire for held codes {C}.
C3_FiredExactlyActiveAndTrue ==
  RunDone =>
    /\ \A i \in 1..Len(rules) :
         Fired(rules[i]) = (Active(rules[i], today) /\ IntendedVerdict(rules[i]))
    /\ \A j \in 1..Len(testResults) :
         /\ \E i \in 1..Len(rules) : testResults[j].rule = rules[i]
         /\ testResults[j].marketingUrl =
              <<"https://marketing.example.com/", testResults[j].rule.id>>
    /\ \A i \in 1..Len(rules) :
         (/\ Active(rules[i], today)
          /\ rules[i].conditions = <<ExampleCondition>>
          /\ GroupCodeSet(ExampleCondition, productGroups) = {"A", "B"}) =>
           /\ ToSet(computed[1].customerCodes) = {"A"} => Fired(rules[i])
           /\ ToSet(computed[1].customerCodes) = {"C"} => ~Fired(rules[i])

\* the example rule has fired for held codes {A}, next to a rule that has not
C3_Witness ==
  /\ RunDone
  /\ Len(rules) = 2
  /\ rules[1].conditions = <<ExampleCondition>>
  /\ computed[1].customerCodes = <<"A">>
  /\ computed[1].renewalCodes = <<>>
  /\ Active(rules[1], today)
  /\ Active(rules[2], today)
  /\ FiredIds(testResults) = <<rules[1].id>>

\* C4: a fired rule is enabled and today is within its window; a disabled rule,
\* and a rule whose window does not hold today (in particular one whose start
\* is after its end), is not among the fired results.
C4_OnlyActiveRulesFire ==
  RunDone =>
    /\ \A j \in 1..Len(testResults) :
         /\ testResults[j].rule.enabled
         /\ InWindow(testResults[j].rule, today)
    /\ \A i \in 1..Len(rules) :
         (\/ ~rules[i].enabled
          \/ DayNumber(rules[i].startDate) > DayNumber(rules[i].endDate)) => ~Fired(rules[i])

\* a disabled rule in its window with a true verdict is missing from the
\* results, and so is an enabled rule whose start is after its end
C4_Witness ==
  /\ RunDone
  /\ Len(rules) = 2
  /\ ~rules[1].enabled /\ InWindow(rules[1], today) /\ IntendedVerdict(rules[1])
  /\ rules[2].enabled /\ IntendedVerdict(rules[2])
  /\ DayNumber(rules[2].startDate) > DayNumber(rules[2].endDate)
  /\ testResults = <<>>

\* C5 as stated: an enabled rule with a true verdict fires when today is its
\* startDate and when today is its endDate.
C5_AsStated ==
  RunDone =>
    \A i \in 1..Len(rules) :
      (/\ rules[i].enabled
       /\ IntendedVerdict(rules[i])
       /\ (today = rules[i].startDate \/ today = rules[i].endDate)) => Fired(rules[i])

\* C5: the window is inclusive on both bounds: an enabled rule with a true
\* verdict whose startDate is not after its endDate fires when today is its
\* startDate and when today is its endDate.
C5_InclusiveBounds ==
  RunDone =>
    \A i \in 1..Len(rules) :
      (/\ rules[i].enabled
       /\ IntendedVerdict(rules[i])
       /\ DayNumber(rules[i].startDate) <= DayNumber(rules[i].endDate)
       /\ (today = rules[i].startDate \/ today = rules[i].endDate)) => Fired(rules[i])

\* one rule has fired on its first day and another on its last day
C5_Witness ==
  /\ RunDone
  /\ Len(rules) = 2
  /\ today = rules[1].startDate /\ today # rules[1].endDate
  /\ today = rules[2].endDate /\ today # rules[2].startDate
  /\ Fired(rules[1])
  /\ Fired(rules[2])

\* C8: an unresolved product-group reference never aborts a run: no run ends by
\* an exception, and the rules that fire are those that fire on the snapshot
\* without the unresolved conditions.
C8_BadReferenceNeverAborts ==
  /\ pc # "rejected"
  /\ RunDone =>
       /\ ~loading
       /\ FiredIds(testResults) =
            FiredIds(evaluateRules(WithoutUnresolved(rules, productGroups), productGroups,
                                   computed[1], today).firedResults)

\* a rule fired on the condition after its bad reference, and so did the next rule
C8_Witness ==
  /\ RunDone
  /\ Len(rules) = 2
  /\ Len(rules[1].conditions) = 2
  /\ ~Resolves(rules[1].conditions[1], productGroups)
  /\ Resolves(rules[1].conditions[2], productGroups)
  /\ FiredIds(testResults) = <<rules[1].id, rules[2].id>>

\* C9: the fired results are a subsequence of the rule snapshot: they follow the
\* snapshot order and every rule position gives at most one result.
C9_SnapshotOrder ==
  RunDone =>
    \E f \in [1..Len(testResults) -> 1..Len(rules)] :
      /\ \A j \in 1..Len(testResults) : testResults[j].rule = rules[f[j]]
      /\ \A j, k \in 1..Len(testResults) : j < k => f[j] < f[k]

\* two different rules have fired, in snapshot order
C9_Witness ==
  /\ RunDone
  /\ Len(rules) = 2
  /\ rules[1].conditions # rules[2].conditions
  /\ FiredIds(testResults) = <<rules[1].id, rules[2].id>>

----------------------------------------------------------------------------
(* More properties of evaluateCondition, under SpecCond *)

CallSelected == ToSet(condCall[1].selected)
CallGroup == ToSet(condCall[1].groupCodes)
CallResult == condCall[1].result[1]

\* C11: contains-all is true exactly when every code of groupCodes is in
\* selected; over an empty groupCodes it is true whatever selected is.
C11_ContainsAll ==
  (CallReturned /\ condCall[1].relationship = "contains-all") =>
    /\ CallResult = (\A code \in CallGroup : code \in CallSelected)
    /\ condCall[1].groupCodes = <<>> => CallResult = TRUE

\* contains-all returned false for a group only partly present in selected
C11_Witness ==
  /\ CallReturned
  /\ condCall[1].relationship = "contains-all"
  /\ condCall[1].groupCodes = <<"A", "B">>
  /\ condCall[1].selected = <<"B", "C">>
  /\ condCall[1].result = <<FALSE>>

\* C12: contains-some is true exactly when some code of groupCodes is in
\* selected and some code of groupCodes is not; over an empty groupCodes it is
\* false.
C12_ContainsSome ==
  (CallReturned /\ condCall[1].relationship = "contains-some") =>
    /\ CallResult = (/\ \E code \in CallGroup : code \in CallSelected
                     /\ \E code \in CallGroup : code \notin CallSelected)
    /\ condCall[1].groupCodes = <<>> => CallResult = FALSE

\* contains-some returned false for a group wholly present in selected
C12_Witness ==
  /\ CallReturned
  /\ condCall[1].relationship = "contains-some"
  /\ condCall[1].groupCodes = <<"A", "B">>
  /\ condCall[1].selected = <<"B", "C", "A">>
  /\ condCall[1].result = <<FALSE>>

\* C13: contains-none is true exactly when no code of groupCodes is in
\* selected; over an empty groupCodes it is true whatever selected is.
C13_ContainsNone ==
  (CallReturned /\ condCall[1].relationship = "contains-none") =>
    /\ CallResult = (\A code \in CallGroup : code \notin CallSelected)
    /\ condCall[1].groupCodes = <<>> => CallResult = TRUE

\* contains-none returned false for a group only partly present in selected
C13_Witness ==
  /\ CallReturned
  /\ condCall[1].relationship = "contains-none"
  /\ condCall[1].groupCodes = <<"A", "B">>
  /\ condCall[1].selected = <<"B">>
  /\ condCall[1].result = <<FALSE>>

\* C14: for a groupCodes that is not empty and wholly within selected,
\* contains-any and contains-all are true, contains-some and contains-none false.
C14_GroupWithinSelected ==
  (CallReturned /\ CallGroup # {} /\ CallGroup \subseteq CallSelected) =>
    CallResult = (condCall[1].relationship \in {"contains-any", "contains-all"})

\* contains-none returned false for a group wholly present in selected
C14_Witness ==
  /\ CallReturned
  /\ condCall[1].relationship = "contains-none"
  /\ condCall[1].groupCodes = <<"A", "B">>
  /\ condCall[1].selected = <<"C", "B", "A">>
  /\ condCall[1].result = <<FALSE>>

\* C15: for a groupCodes disjoint from selected, contains-any and contains-some
\* are false, contains-none is true, and contains-all is false unless groupCodes
\* is empty, when it is true.
C15_GroupDisjointFromSelected ==
  (CallReturned /\ CallGroup \cap CallSelected = {}) =>
    CallResult = CASE condCall[1].relationship = "contains-any" -> FALSE
                   [] condCall[1].relationship = "contains-some" -> FALSE
                   [] condCall[1].relationship = "contains-none" -> TRUE
                   [] condCall[1].relationship = "contains-all" -> condCall[1].groupCodes = <<>>

\* contains-all returned true for an empty group and a selection that is not empty
C15_Witness ==
  /\ CallReturned
  /\ condCall[1].relationship = "contains-all"
  /\ condCall[1].groupCodes = <<>>
  /\ condCall[1].selected = <<"A", "B">>
  /\ condCall[1].result = <<TRUE>>

----------------------------------------------------------------------------
(* The component with its pickers: selections change at any time, runs repeat *)

\* two active rules: one on the held codes, one on the opportunity codes with a
\* second condition whose product group is missing
UiRules ==
  <<MakeRule(RuleId(1), TRUE, Day1, Day3,
             <<Condition("absent", "customerCodes", "G1", "contains-any")>>),
    MakeRule(RuleId(2), TRUE, Day1, Day3,
             <<Condition("absent", "opportunityCodes", "G1", "contains-any"),
               Condition("AND", "renewalCodes", "GX", "contains-all")>>)>>

\* nothing picked yet, the backend serving UiRules
UiStart ==
  /\ Mounted
  /\ customerCodes = <<>>
  /\ renewalCodes = <<>>
  /\ apiRules = UiRules
  /\ apiProductGroups = <<GroupC, GroupAB>>
  /\ clock = Day2
  /\ condCall = <<>>
  /\ remembered = <<>>
  /\ PickersMounted
  /\ FormMounted

\* the run on screen: what it read and what it put on screen
RunRecord ==
  [customerCodes |-> computed[1].customerCodes,
   renewalCodes |-> computed[1].renewalCodes,
   rules |-> rules,
   productGroups |-> productGroups,
   today |-> today,
   computedCodes |-> computedCodes,
   testResults |-> testResults]

\* history: keep the finished run on screen for comparison with a later one
RememberRun ==
  /\ RunDone
  /\ remembered = <<>>
  /\ remembered' = <<RunRecord>>
  /\ UNCHANGED <<uiVars, runVars, envVars, pickerVars, formVars, condCall>>

NextUi ==
  \/ ToggleCustomerCode
  \/ ToggleRenewalCode
  \/ RunTestStart
  \/ RulesFetched
  \/ ProductGroupsFetched

NextRepeat ==
  \/ NextUi
  \/ RememberRun

\* the pickers over a catalog of three codes
InitUi == UiStart /\ products = Catalog(<<"A", "B", "C">>)

\* the pickers over a catalog of two codes
InitRepeat == UiStart /\ products = Catalog(<<"A", "C">>)

SpecUi == InitUi /\ [][NextUi]_vars

\* with one earlier run remembered
SpecRepeat == InitRepeat /\ [][NextRepeat]_vars

----------------------------------------------------------------------------
(* Properties of the derived code groups, under SpecUi *)

\* the step of runTest that reads the selections and derives the code groups
DerivesCodeGroups == pc # "awaitRules" /\ pc' = "awaitRules"

\* C16: opportunityCodes holds exactly the codes that are in renewalCodes and
\* not in the held codes, whether the two overlap or not; when the two hold the
\* same codes it is empty.
C16_OpportunityCodes ==
  [][DerivesCodeGroups =>
       /\ ToSet(computed'[1].opportunityCodes) = ToSet(renewalCodes) \ ToSet(customerCodes)
       /\ ToSet(renewalCodes) = ToSet(customerCodes) => computed'[1].opportunityCodes = <<>>
       /\ computedCodes' = computed']_vars

\* held {A, B} and renewal {B, C} overlap and gave the opportunity codes {C}
C16_Witness ==
  /\ computed # <<>>
  /\ computed[1].customerCodes = <<"A", "B">>
  /\ computed[1].renewalCodes = <<"B", "C">>
  /\ computed[1].opportunityCodes = <<"C">>
  /\ computedCodes = computed

\* C17: allCustomerCodes holds exactly the codes that are held or under
\* renewal, each once, and the derived customerCodes and renewalCodes are the
\* two selections as they are.
C17_AllCustomerCodes ==
  [][DerivesCodeGroups =>
       /\ ToSet(computed'[1].allCustomerCodes) = ToSet(customerCodes) \cup ToSet(renewalCodes)
       /\ Cardinality(ToSet(computed'[1].allCustomerCodes)) = Len(computed'[1].allCustomerCodes)
       /\ computed'[1].customerCodes = customerCodes
       /\ computed'[1].renewalCodes = renewalCodes
       /\ computedCodes' = computed']_vars

\* held {A, B} and renewal {B, C} overlap and gave all customer codes A, B, C
C17_Witness ==
  /\ computed # <<>>
  /\ computed[1].customerCodes = <<"A", "B">>
  /\ computed[1].renewalCodes = <<"B", "C">>
  /\ computed[1].allCustomerCodes = <<"A", "B", "C">>
  /\ computedCodes = computed

----------------------------------------------------------------------------
(* Runs compared with an earlier run, under SpecRepeat *)

CodeGroupNames == {"customerCodes", "renewalCodes", "allCustomerCodes", "opportunityCodes"}

\* the run on screen read what the remembered run read
SameInputsAsRemembered ==
  /\ ToSet(remembered[1].customerCodes) = ToSet(computed[1].customerCodes)
  /\ ToSet(remembered[1].renewalCodes) = ToSet(computed[1].renewalCodes)
  /\ remembered[1].rules = rules
  /\ remembered[1].productGroups = productGroups
  /\ remembered[1].today = today

\* C18: a run is a function of what it reads: a finished run that read the same
\* snapshots, held codes, renewal codes and date as an earlier run shows the same
\* code sets and the same fired results, whatever ran in between.
C18_RunsAreRepeatable ==
  (RunDone /\ remembered # <<>> /\ SameInputsAsRemembered) =>
    /\ testResults = remembered[1].testResults
    /\ \A g \in CodeGroupNames :
         ToSet(computedCodes[1][g]) = ToSet(remembered[1].computedCodes[1][g])
    /\ (/\ remembered[1].customerCodes = computed[1].customerCodes
        /\ remembered[1].renewalCodes = computed[1].renewalCodes) =>
         computedCodes = remembered[1].computedCodes

\* a later run over the same held codes, picked in another order, fired the
\* same rule as the remembered run
C18_Witness ==
  /\ RunDone
  /\ remembered # <<>>
  /\ SameInputsAsRemembered
  /\ remembered[1].customerCodes = <<"A", "C">>
  /\ computed[1].customerCodes = <<"C", "A">>
  /\ Len(testResults) = 1
  /\ testResults = remembered[1].testResults

----------------------------------------------------------------------------
(* What a run leaves alone, under SpecUi *)

\* C19: no step of runTest changes what the run reads: the selections and the
\* served snapshots are untouched by every step, the code groups of the run stay
\* as derived, and at the end the fetched snapshots are what was served and the
\* fired results carry the rules of the snapshot as they are.
C19_RunLeavesInputsUnchanged ==
  [][pc' # pc =>
       /\ customerCodes' = customerCodes
       /\ renewalCodes' = renewalCodes
       /\ apiRules' = apiRules
       /\ apiProductGroups' = apiProductGroups
       /\ ~DerivesCodeGroups => computed' = computed
       /\ pc' = "done" =>
            /\ rules' = rules
            /\ rules' = apiRules
            /\ productGroups' = apiProductGroups
            /\ \A j \in 1..Len(testResults') :
                 \E i \in 1..Len(rules') : testResults'[j].rule = rules'[i]]_vars

\* a run that fired both rules has ended with selections and snapshots as read
C19_Witness ==
  /\ RunDone
  /\ customerCodes = <<"A">>
  /\ renewalCodes = <<"B", "C">>
  /\ computed[1].customerCodes = customerCodes
  /\ computed[1].renewalCodes = renewalCodes
  /\ rules = apiRules
  /\ productGroups = apiProductGroups
  /\ FiredIds(testResults) = <<rules[1].id, rules[2].id>>

----------------------------------------------------------------------------
(* The connector of the seed, under SpecFold *)

\* the conditions with the connector of the first resolving one set to c
RECURSIVE WithSeedConnector(_, _, _)
WithSeedConnector(conds, groups, c) ==
  IF conds = <<>> THEN <<>>
  ELSE IF Resolves(Head(conds), groups)
       THEN <<[Head(conds) EXCEPT !.connector = c]>> \o Tail(conds)
       ELSE <<Head(conds)>> \o WithSeedConnector(Tail(conds), groups, c)

\* C20: the connector of the first condition whose product group resolves has
\* no effect: the rule fires exactly as it would with that connector absent, AND
\* or OR, also when earlier conditions were skipped.
C20_SeedConnectorIgnored ==
  RunDone =>
    \A i \in 1..Len(rules) :
      \A c \in {"absent", "AND", "OR"} :
        Fired(rules[i]) =
          fires(forEachCondition(WithSeedConnector(rules[i].conditions, productGroups, c),
                                 StartOfRule, productGroups, computed[1]).overallResult)

\* a rule [<missing>, AND true] has fired: its seed is the second condition
C20_Witness ==
  /\ RunDone
  /\ Len(rules) = 1
  /\ Len(rules[1].conditions) = 2
  /\ ~Resolves(rules[1].conditions[1], productGroups)
  /\ Resolves(rules[1].conditions[2], productGroups)
  /\ rules[1].conditions[2].connector = "AND"
  /\ Fired(rules[1])

----------------------------------------------------------------------------
(* The rule form, under SpecForm *)

\* the rules the screen lists: one condition, none at all, and two conditions
FormRules ==
  <<MakeRule(RuleId(1), TRUE, Day1, Day3,
             <<Condition("absent", "customerCodes", "G1", "contains-any")>>),
    MakeRule(RuleId(2), TRUE, Day1, Day3, <<>>),
    MakeRule(RuleId(3), FALSE, Day1, Day3,
             <<Condition("absent", "customerCodes", "G1", "contains-any"),
               Condition("OR", "customerCodes", "G1", "contains-any")>>)>>

\* the screen as mounted, the backend serving FormRules and one product group
InitForm ==
  /\ Mounted
  /\ customerCodes = <<>>
  /\ renewalCodes = <<>>
  /\ apiRules = FormRules
  /\ apiProductGroups = <<GroupAB>>
  /\ clock = Day2
  /\ condCall = <<>>
  /\ products = Catalog(<<"A", "C">>)
  /\ remembered = <<>>
  /\ PickersMounted
  /\ FormMounted

NextForm ==
  \/ handleAdd
  \/ handleEdit
  \/ handleFormClose
  \/ FieldChanged
  \/ RecommendationChanged
  \/ ConditionChanged
  \/ ConditionAdded
  \/ ConditionRemoved
  \/ handleSave

SpecForm == InitForm /\ [][NextForm]_vars

\* the latest step called onSave
Saved == onSaveArg # <<>>

\* the form was opened with Add Rule: it started from a new rule
StartedFromNewRule == editingRule = <<>>

\* C21: the first condition of a rule handed to onSave has no connector, when
\* the form started from a new rule, whatever conditions were added, removed
\* and changed since.
C21_FirstConditionHasNoConnector ==
  (Saved /\ StartedFromNewRule) =>
    /\ Len(onSaveArg[1].conditions) > 0
    /\ onSaveArg[1].conditions[1].connector = "absent"

\* C22: a rule handed to onSave has at least one condition, whatever the form
\* was opened with and whatever was added and removed since.
C22_SavedRuleHasConditions ==
  Saved => Len(onSaveArg[1].conditions) > 0

\* a rule listed without conditions was opened, it was given one condition with
\* a product group, and Save handed it to onSave
C22_Witness ==
  /\ Saved
  /\ editingRule # <<>>
  /\ Len(editingRule[1].conditions) = 0
  /\ Len(onSaveArg[1].conditions) = 1

----------------------------------------------------------------------------
(* Runs whose fetches may fail, with the pickers in use, under SpecFetch *)

NextFetch ==
  \/ ToggleCustomerCode
  \/ ToggleRenewalCode
  \/ RunTestStart
  \/ RulesFetched
  \/ RulesFetchFailed
  \/ ProductGroupsFetched
  \/ ProductGroupsFetchFailed

SpecFetch == InitRepeat /\ [][NextFetch]_vars

\* the runTest invocation has ended: it returned, or its promise rejected
RunEnded == pc \in {"done", "rejected"}

\* C23: a runTest invocation that has set loading to true sets it back to false
\* by the time it ends, whatever the outcome of the two fetches, so that the
\* Run Test button is enabled again.
C23_EndedRunHasResetLoading ==
  RunEnded => ~loading

\* the verdict of a rule on the code sets on screen
StoredVerdict(rule) ==
  LET conds == Resolved(rule.conditions, productGroups)
      bs == [k \in 1..Len(conds) |->
               Holds(ToSet(computedCodes[1][conds[k].codeGroup]),
                     GroupCodeSet(conds[k], productGroups), conds[k].relationship)]
  IN conds # <<>> /\ LeftFold(bs, Connectors(conds))

\* the fired results on screen are those of the code sets on screen
ResultsOfStoredCodes ==
  \A i \in 1..Len(rules) :
    Fired(rules[i]) = (Active(rules[i], today) /\ StoredVerdict(rules[i]))

\* C24: while the fetches of a run are pending no step, a pick in a picker
\* included, changes the code sets the run stored in computedCodes, and the
\* fired results a run stores are those of these code sets.
C24_RunUsesItsOwnCodeSets ==
  [][/\ pc \in {"awaitRules", "awaitProductGroups"} => computedCodes' = computedCodes
     /\ pc' = "done" => ResultsOfStoredCodes']_vars

\* a run started with A held has fired the first rule, and A is no longer
\* picked: the results are those of the stored code sets, not of the selection
C24_Witness ==
  /\ RunDone
  /\ computedCodes[1].customerCodes = <<"A">>
  /\ customerCodes = <<>>
  /\ FiredIds(testResults) = <<rules[1].id>>
  /\ ~StoredVerdict(rules[2])

----------------------------------------------------------------------------
(* The selections the pickers build, under SpecPicker *)

NextPicker ==
  \/ ToggleCustomerCode
  \/ ToggleRenewalCode
  \/ SelectAllCustomerCodes
  \/ SelectAllRenewalCodes
  \/ SearchCustomerCodes
  \/ SearchRenewalCodes
  \/ ShowOnlySelectedCustomerCodes
  \/ ShowOnlySelectedRenewalCodes

SpecPicker == InitUi /\ [][NextPicker]_vars

NoDuplicates(arr) == \A i, j \in 1..Len(arr) : arr[i] = arr[j] => i = j

\* C25: the held-code and the renewal-code selection never hold a code twice,
\* whatever rows were clicked and whatever the header checkbox added or removed
\* under whatever search and Show Only Selected setting.
C25_SelectionsHaveNoDuplicates ==
  /\ NoDuplicates(customerCodes)
  /\ NoDuplicates(renewalCodes)

\* B was picked first and the search for "a" lists Product A alone, with the
\* header checkbox checked; the renewal picker shows its two selected rows only
C25_Witness ==
  /\ customerCodes = <<"B", "A">>
  /\ customerPicker.searchTerm = "a"
  /\ CodesOf(filteredProducts(customerCodes, customerPicker)) = <<"A">>
  /\ allFilteredSelected(customerCodes, customerPicker)
  /\ renewalCodes = <<"C", "A">>
  /\ renewalPicker.showOnlySelected
  /\ CodesOf(filteredProducts(renewalCodes, renewalPicker)) = <<"A", "C">>

====
